---- MODULE Spec2Model ----
(***************************************************************************)
(* Model of the CaptchaSolver automation engine:                           *)
(*   src/services/playwright_service.py  (PlaywrightService)               *)
(*   src/services/alicuota_service.py    (AlicuotaService)                 *)
(*   src/app.py                          (startup / shutdown events)       *)
(*   src/services/twocaptcha_service.py  (TwoCaptchaService)               *)
(*                                                                         *)
(* The PlaywrightService object is one record, svc.  The browser side      *)
(* (driver processes, browser processes, pages of a context, the           *)
(* g-recaptcha-response textarea of the services page) is the record       *)
(* world.  Every worker thread of the default executor has a record th[t]  *)
(* holding the position of the call it runs and that call's locals.        *)
(* What the remote site does (timeouts, closed pages, redirects, which     *)
(* selectors match) is drawn with \E in the action that performs the       *)
(* browser operation.                                                      *)
(***************************************************************************)
EXTENDS Integers, Sequences, FiniteSets, TLC

\* ------------------------------------------------------------------ bounds
MaxBatch == 2        \* longest batch of identifiers in one request
MaxKeys == 2         \* most keys of a dictionary answered by the solver library
MaxRequests == 2     \* batch requests that arrive while the session is shared
NumThreads == 2      \* worker threads of the default executor that are modelled
MaxDigitos == 2      \* how many of the digits 0..9 the generated sequences use
MaxFrames == 2       \* most iframe elements of a page that holds a challenge
MaxLineas == 3       \* most lines of the text of the result frame

\* ------------------------------------------------------- program constants
TOKEN_MIN == 50      \* "looks like a real token" threshold: len(token) > 50
PREVIEW_LEN == 50    \* token[:50] + "..."
SOLVER_MIN == 50     \* the client keeps a token only if len(token) > 50
SEQ_MIN == 5         \* _generar_secuencia_captcha: 5 + random.randint(0, 2)
SEQ_EXTRA == 2
DIGIT_MAX == 9       \* each entry is str(random.randint(0, 9))

Threads == 1..NumThreads
\* the identifiers of a request: opaque strings, here pairwise distinct
Cuits == <<"30717692221", "20123456786", "27000000006", "23111111119">>
Batches == {SubSeq(Cuits, 1, n) : n \in 1..MaxBatch}

None == "<None>"
NoPage == <<0, 0>>           \* a null page reference
NoRef == 0                   \* a null browser / driver / context reference
NoTextarea == -1             \* the page has no g-recaptcha-response textarea
TokenLens == {0, 51}         \* lengths of the textarea value the site may hold

\* ------------------------------------------------------ exception messages
MsgTimeout == "Timeout 15000ms exceeded."
MsgClosed == "Target page, context or browser has been closed"
MsgPaginaCerro == "La pagina del navegador se cerro"
MsgNoPopup == "No se pudo abrir el popup de login"
MsgNoEnlace == "No se pudo encontrar el enlace 'e-Servicios SRT' ni navegar directamente. El login puede haber fallado o la pagina cambio."
MsgLaunch == "BrowserType.launch: Executable doesn't exist"
MsgNoIframe == "Captcha iframe no esta presente"
MsgCaptcha == "No se pudo resolver el captcha"

\* "closed" in str(e).lower(), evaluated on the messages above
ContainsClosedLower(m) == m \in {MsgClosed}
\* "Connection" in str(e)
ContainsConnection(m) == FALSE
\* "Connection closed" in str(e)
ContainsConnectionClosed(m) == FALSE

Min(a, b) == IF a < b THEN a ELSE b

VARIABLES
  svc,      \* the PlaywrightService instance (process-wide)
  world,    \* drivers, browsers, pages and the textarea on the browser side
  th,       \* per worker thread: the running call and its locals
  workers,  \* the threads that pick up executor jobs
  app,      \* the FastAPI application: phase, requests still to arrive, last login
  sol,      \* the call of the TwoCaptchaService client that is being followed
  hlp       \* the call of a PlaywrightService helper that is being followed

vars == <<svc, world, th, workers, app, sol, hlp>>

\* ------------------------------------------------------------- svc fields
\* the whole token kept in place of its preview
PreviewEntero(n) == [prefix |-> n, suffix |-> ""]

\* token[:50] + "..."
Preview(n) == [prefix |-> Min(n, PREVIEW_LEN), suffix |-> "..."]
NoneToken == [prefix |-> -1, suffix |-> ""]

ServiceInit(twocaptcha) ==
  [ playwright |-> NoRef, browser |-> NoRef, context |-> NoRef,
    page |-> NoPage, login_page |-> NoPage, servicios_page |-> NoPage,
    session_ready |-> FALSE, captcha_resuelto |-> FALSE,
    captcha_token |-> NoneToken, captcha_resolviendo |-> FALSE,
    twocaptcha_service |-> twocaptcha ]

WorldInit ==
  [ launched |-> 0, liveDrivers |-> {}, liveBrowsers |-> {},
    nextPage |-> 1, openPages |-> {}, textarea |-> NoTextarea ]

\* what the last captcha handling of a thread did, until its next step; of
\* its call of _resolver_captcha: whether the frame was found (marco), how
\* the path through the solver client went (auto), what the call raised (res)
NoCap ==
  [ pre |-> NoTextarea, lookup |-> FALSE, solver |-> FALSE, manual |-> FALSE,
    raised |-> FALSE, marco |-> FALSE, auto |-> "none", res |-> "<None>" ]

\* how the last login of a thread went, until its next step: returned or
\* raised, inside inicializar_sesion or _rehacer_login, what became of the
\* startup captcha, how many times the direct navigation met the bot block
NoLg == [fin |-> "none", de |-> "none", captcha |-> "none", bloqueos |-> 0]

\* the last call of _extraer_alicuota of a thread, until its next step: the
\* checkpoint at which it returned and the label and name the frame held
NoExt == [donde |-> "none", texto |-> <<>>, nombre |-> "<None>"]

\* the last drift check of a thread, until its next step: what the current
\* URL contained, whether page.goto was called and how it ended; and how the
\* availability probe of the last form reset ended
NoNav == [visto |-> FALSE, home |-> FALSE, def |-> FALSE, goto |-> FALSE,
          res |-> "none", probe |-> "none"]

\* the steps of the loop called so far for identifier number i, in order
NoPasos == [i |-> 0, s |-> <<>>]

ThreadIdle ==
  [ pc |-> "idle", op |-> "none", ret |-> "none",
    cuits |-> <<>>, i |-> 0, resultados |-> <<>>,
    servicios_page |-> NoPage, login_page |-> NoPage, login_servicios |-> NoPage,
    intento |-> 0, exc |-> None,
    acted |-> {}, raised |-> {}, aborted |-> 0, cap |-> NoCap,
    lg |-> NoLg, lista |-> FALSE, inits |-> 0, ext |-> NoExt,
    pasos |-> NoPasos, nav |-> NoNav,
    \* the identifiers (by position) whose iteration began, and those for
    \* which _intentar_resetear_pagina was called, in order
    visitas |-> <<>>, resets |-> <<>> ]

\* --------------------------------------------------------- browser side
PagesOf(w, b) == {p \in w.openPages : p[1] = b}
\* a page operation (goto, evaluate, click, wait_for, content): it succeeds,
\* times out, or finds the page closed; a closed page stays closed
OpOutcomes(w, p) ==
  IF p \in w.openPages THEN {"ok", MsgTimeout, MsgClosed} ELSE {MsgClosed}
ClosePage(w, p) == [w EXCEPT !.openPages = @ \ {p}]
AfterOp(w, p, r) == IF r = MsgClosed THEN ClosePage(w, p) ELSE w
NewPage(w, b) == [w EXCEPT !.nextPage = @ + 1, !.openPages = @ \cup {<<b, w.nextPage>>}]
Fresh(w, b) == <<b, w.nextPage>>
\* context.pages[-1]
LastPage(w, b) == CHOOSE p \in PagesOf(w, b) : \A q \in PagesOf(w, b) : q[2] <= p[2]

Set(t, r) == [th EXCEPT ![t] = r]

\* the application: its phase, the requests still to arrive and the longest
\* batch they carry, whether the service is still called after its close;
\* falla and lanzados record, at the close, which release raised (0: none)
\* and how many browsers had been launched
AppInit(phase, requests, lote, tardia) ==
  [ phase |-> phase, requests |-> requests, lote |-> lote, tardia |-> tardia,
    falla |-> 0, lanzados |-> 0, login |-> "none" ]

\* ------------------------------------------------ values of the solver client
\* a Python value that a response of the 2Captcha library may hold: None, a
\* string (by its length) or an integer
PyNone == [t |-> "none", n |-> 0]
PyStr(n) == [t |-> "str", n |-> n]
PyInt(n) == [t |-> "int", n |-> n]
\* no call of the client is being followed
SolIdle == [pc |-> "idle", fn |-> "none", result |-> PyNone, ret |-> PyNone]

\* no call of a helper is being followed
HlpIdle == [pc |-> "idle", fn |-> "none"]

TypeOK ==
  /\ svc.session_ready \in BOOLEAN
  /\ svc.captcha_resuelto \in BOOLEAN
  /\ svc.captcha_resolviendo \in BOOLEAN
  /\ workers \subseteq Threads
  /\ \A t \in Threads : th[t].i \in 0..(MaxBatch + 1)

Init ==
  /\ svc \in {ServiceInit(k) : k \in BOOLEAN}
  /\ world = WorldInit
  /\ th = [t \in Threads |-> ThreadIdle]
  /\ workers = {1}
  \* startup, one batch request of up to MaxBatch identifiers, shutdown
  /\ app = AppInit("starting", 1, MaxBatch, FALSE)
  /\ sol = SolIdle
  /\ hlp = HlpIdle

\* ======================================================================
\* Session Manager
\* ======================================================================

\* _obtener_alicuotas_secuencial, lines 729-736: the locals at loop entry
StartBatch(r, sp) ==
  [r EXCEPT !.pc = "renovar", !.i = 1, !.resultados = <<>>,
            !.servicios_page = sp, !.intento = 0, !.exc = None, !.ret = "none",
            !.login_page = NoPage, !.login_servicios = NoPage,
            !.acted = {}, !.raised = {}, !.aborted = 0, !.cap = NoCap,
            !.lg = NoLg, !.pasos = NoPasos, !.visitas = <<>>, !.resets = <<>>]

\* the step after _verificar_y_renovar_sesion, without the reset of the form
AfterRenovarSinReset(r) ==
  [r EXCEPT !.pc = "url", !.ret = "none",
            !.login_page = NoPage, !.login_servicios = NoPage]

\* the step after _verificar_y_renovar_sesion: "if i > 1: _resetear_formulario"
AfterRenovar(r) ==
  [r EXCEPT !.pc = IF r.i > 1 THEN "reset" ELSE "url", !.ret = "none",
            !.login_page = NoPage, !.login_servicios = NoPage]

\* startup_event: the exception of inicializar_sesion is logged, the app serves
StartupOver(fin) == app' = [app EXCEPT !.phase = "serving", !.login = fin]

\* inicializar_sesion raised (lines 638-641), seen from its caller:
\* startup_event swallows it, obtener_alicuotas raises RuntimeError (line 722)
InitRaised(t, s, w, m) ==
  LET g == [NoLg EXCEPT !.fin = "raised", !.de = "init"] IN
  /\ svc' = [s EXCEPT !.session_ready = FALSE]
  /\ world' = w
  /\ IF th[t].op = "inicializar_sesion"
       THEN /\ th' = Set(t, [ThreadIdle EXCEPT !.lg = g])
            /\ StartupOver("raised")
       ELSE /\ th' = Set(t, [th[t] EXCEPT !.pc = "failed", !.exc = m,
                                          !.lg = g, !.inits = 1])
            /\ app' = [app EXCEPT !.login = "raised"]

\* startup_event, app.py lines 41-52: the first executor job
Startup(t) ==
  /\ app.phase = "starting"
  /\ t \in workers
  /\ \A u \in Threads : th[u].pc = "idle"
  /\ th' = Set(t, [ThreadIdle EXCEPT !.pc = "init", !.op = "inicializar_sesion"])
  /\ UNCHANGED <<svc, world, workers, app, sol, hlp>>

\* "if not self.session_ready or not self.servicios_page", negated (line 716)
SesionListaSiempre(s) == TRUE

SesionLista(s) == s.session_ready /\ s.servicios_page # NoPage

\* obtener_alicuotas_async + obtener_alicuotas, lines 714-725: a batch request
\* is handed to an idle executor thread, which checks the session first
ObtenerAlicuotas(t) ==
  /\ app.phase = "serving" \/ (app.tardia /\ app.phase = "closed")
  /\ app.requests > 0
  /\ t \in workers
  /\ th[t].pc = "idle"
  /\ \E cuits \in {b \in Batches : Len(b) <= app.lote} :
       LET r == [ThreadIdle EXCEPT
                   !.op = "obtener_alicuotas", !.cuits = cuits,
                   !.lista = svc.session_ready /\ svc.servicios_page # NoPage] IN
       IF ~SesionLista(svc)
         THEN th' = Set(t, [r EXCEPT !.pc = "init"])
         ELSE th' = Set(t, StartBatch(r, svc.servicios_page))
  /\ app' = [app EXCEPT !.requests = @ - 1]
  /\ UNCHANGED <<svc, world, workers, sol, hlp>>

\* inicializar_sesion, lines 613-627: driver, browser, context, first page
InicializarSesion(t) ==
  /\ th[t].pc = "init"
  /\ LET id == world.launched + 1
         w1 == [world EXCEPT !.launched = id, !.liveDrivers = @ \cup {id}]
         w2 == [w1 EXCEPT !.liveBrowsers = @ \cup {id}, !.nextPage = 1]
         s1 == [svc EXCEPT !.playwright = id]
         s2 == [s1 EXCEPT !.browser = id, !.context = id]
     IN
     \E launch \in {"ok", "driver", "browser"} :
       CASE launch = "driver"  -> InitRaised(t, svc, world, MsgLaunch)
         [] launch = "browser" -> InitRaised(t, s1, w1, MsgLaunch)
         [] launch = "ok" ->
              /\ svc' = [s2 EXCEPT !.page = Fresh(w2, id)]
              /\ world' = NewPage(w2, id)
              /\ th' = Set(t, [th[t] EXCEPT !.pc = "login", !.ret = "init",
                                            !.inits = 1])
              /\ UNCHANGED app
  /\ UNCHANGED <<workers, sol, hlp>>

\* _realizar_login lines 256-276: the popup, or the last page of the context
PopupOutcomes(w, b) ==
  { [world |-> NewPage(w, b), login_page |-> Fresh(w, b), exc |-> None] }
  \cup { IF Cardinality(PagesOf(w, b)) > 1
           THEN [world |-> w, login_page |-> LastPage(w, b), exc |-> None]
           ELSE [world |-> w, login_page |-> NoPage, exc |-> MsgNoPopup] }
  \cup { [world |-> w, login_page |-> NoPage, exc |-> MsgTimeout] }

\* _realizar_login lines 318-540: the services page. With the link found it is
\* the popup of the click or a new page of the context; without it, it is the
\* login page itself, or a new page when the direct navigation raised
\* (a bot-block detected twice raises inside the same try, line 461)
\* bloqueos counts the redirections to the error page met by the direct
\* navigation (lines 427, 458)
ServiciosOutcomes(w, b, lp) ==
  { [world |-> NewPage(w, b), servicios_page |-> Fresh(w, b), exc |-> None,
     bloqueos |-> 0],
    [world |-> NewPage(w, b), servicios_page |-> NoPage, exc |-> MsgTimeout,
     bloqueos |-> 0] }
  \cup { [world |-> w, servicios_page |-> lp, exc |-> None, bloqueos |-> n]
          : n \in {0, 1} }
  \* the direct navigation raised (a timeout, or the second bot block at line
  \* 461): the except of line 476 opens a new page on the SRT domain
  \cup { [world |-> NewPage(w, b), servicios_page |-> Fresh(w, b), exc |-> None,
          bloqueos |-> n] : n \in {0, 2} }
  \cup { [world |-> NewPage(w, b), servicios_page |-> NoPage, exc |-> MsgNoEnlace,
          bloqueos |-> n] : n \in {0, 2} }

\* _realizar_login raised (line 611), seen from its caller
\* _rehacer_login without line 685: session_ready is left as it was
LoginRaisedSinBajar(t, w, m) ==
  IF th[t].ret = "init"
    THEN InitRaised(t, svc, w, m)
    ELSE /\ svc' = svc
         /\ world' = w
         /\ th' = Set(t, AfterRenovar(
                           [th[t] EXCEPT !.lg = [NoLg EXCEPT !.fin = "raised",
                                                             !.de = "relogin"]]))
         /\ app' = [app EXCEPT !.login = "raised"]

LoginRaised(t, w, m) ==
  IF th[t].ret = "init"
    THEN InitRaised(t, svc, w, m)
    ELSE \* _rehacer_login lines 683-686, swallowed at line 813
         /\ svc' = [svc EXCEPT !.session_ready = FALSE]
         /\ world' = w
         /\ th' = Set(t, AfterRenovar(
                           [th[t] EXCEPT !.lg = [NoLg EXCEPT !.fin = "raised",
                                                             !.de = "relogin"]]))
         /\ app' = [app EXCEPT !.login = "raised"]

\* _realizar_login returned sp (line 600), seen from its caller
LoginReturned(t, s, w, sp, captcha, bloqueos) ==
  LET g == [fin |-> "returned", de |-> th[t].ret, captcha |-> captcha,
            bloqueos |-> bloqueos] IN
  /\ svc' = [s EXCEPT !.servicios_page = sp, !.session_ready = TRUE]
  /\ world' = w
  /\ CASE th[t].ret = "relogin" ->
            /\ th' = Set(t, AfterRenovar([th[t] EXCEPT !.lg = g]))
            /\ app' = [app EXCEPT !.login = "returned"]
       [] th[t].op = "inicializar_sesion" ->
            /\ th' = Set(t, [ThreadIdle EXCEPT !.lg = g])
            /\ StartupOver("returned")
       [] OTHER ->
            /\ th' = Set(t, [StartBatch(th[t], sp) EXCEPT !.lg = g])
            /\ app' = [app EXCEPT !.login = "returned"]

\* _realizar_login, lines 241-597 up to the resolve of the startup captcha
RealizarLogin(t) ==
  /\ th[t].pc = "login"
  /\ LET p == svc.page
         b == p[1]
     IN
     \E rgoto \in OpOutcomes(world, p) :
       IF rgoto # "ok" THEN LoginRaised(t, AfterOp(world, p, rgoto), rgoto)
       ELSE
       \E po \in PopupOutcomes(world, b) :
         IF po.exc # None THEN LoginRaised(t, po.world, po.exc)
         ELSE
         \E cred \in {"ok", MsgTimeout} :
           IF cred # "ok" THEN LoginRaised(t, po.world, cred)
           ELSE
           \E so \in ServiciosOutcomes(po.world, b, po.login_page) :
             IF so.exc # None THEN LoginRaised(t, so.world, so.exc)
             ELSE
             \E ta \in TokenLens \cup {NoTextarea}, iframe \in {"none", "visible", "raise"} :
               LET w == [so.world EXCEPT !.textarea = ta] IN
               IF iframe = "visible"
                 THEN /\ th' = Set(t, [th[t] EXCEPT !.pc = "login_resolver",
                                                    !.login_page = po.login_page,
                                                    !.login_servicios = so.servicios_page,
                                                    !.lg.bloqueos = so.bloqueos])
                      /\ world' = w
                      /\ UNCHANGED <<svc, app>>
                 ELSE LoginReturned(t, [svc EXCEPT !.captcha_resuelto = FALSE],
                                    w, so.servicios_page,
                                    IF iframe = "none" THEN "absent" ELSE "raise",
                                    so.bloqueos)
  /\ UNCHANGED <<workers, sol, hlp>>

\* ======================================================================
\* CAPTCHA Resolver
\* ======================================================================

\* _obtener_token_captcha, lines 644-649: textarea ? textarea.value : ''
ObtenerTokenCaptcha(w) == IF w.textarea = NoTextarea THEN 0 ELSE w.textarea

\* "token and len(token) > 50"
TokenValidoNunca(n) == FALSE

TokenValido(n) == n > TOKEN_MIN

\* the non-null results of TwoCaptchaService.solve_recaptcha_v2 (lengths)
SolverTokens == {51}

\* _resolver_captcha_manual, lines 1183-1214: the clicks, then Verificar; the
\* widget may leave any value in the textarea; only the Verificar click
\* raises. a is the way the path through the solver client ended before
ResolverCaptchaManual(s, w, a) ==
  { [svc |-> s, world |-> [w EXCEPT !.textarea = ta], exc |-> None,
     solver |-> a.solver, manual |-> TRUE, marco |-> TRUE, auto |-> a.auto]
    : ta \in {w.textarea} \cup TokenLens }
  \cup { [svc |-> s, world |-> w, exc |-> MsgTimeout,
          solver |-> a.solver, manual |-> TRUE, marco |-> TRUE, auto |-> a.auto] }

\* _resolver_captcha_con_servicio + _inyectar_token_completo, lines 1087-1181,
\* when it returns True: the token is in the textarea and in the svc fields
ResolverCaptchaConServicio(s, w) ==
  IF s.twocaptcha_service /\ w.textarea # NoTextarea
    THEN { [svc |-> [s EXCEPT !.captcha_token = Preview(n), !.captcha_resuelto = TRUE],
            world |-> [w EXCEPT !.textarea = n], exc |-> None,
            solver |-> TRUE, manual |-> FALSE, marco |-> TRUE, auto |-> "ok"]
           : n \in SolverTokens }
    ELSE {}

\* the ways the path through the solver client does not succeed: there is no
\* client (line 1081, the path is not entered), no site key (1098-1100), no
\* token from the solver (1105-1107), no textarea at the injection
\* (1118-1120), an exception of the injection (1122-1124)
SinServicio(s, w) ==
  IF ~s.twocaptcha_service THEN { [auto |-> "sin_cliente", solver |-> FALSE] }
  ELSE { [auto |-> "sin_site_key", solver |-> FALSE],
         [auto |-> "sin_token", solver |-> TRUE],
         [auto |-> "excepcion", solver |-> TRUE] }
       \cup (IF w.textarea = NoTextarea
               THEN { [auto |-> "sin_textarea", solver |-> TRUE] } ELSE {})

\* _resolver_captcha with the manual clicks made whatever the solver did
ResolverCaptchaManualSiempre(s, w, p) ==
  UNION { ResolverCaptchaManual(o.svc, o.world, [auto |-> o.auto, solver |-> o.solver])
          : o \in ResolverCaptchaConServicio(s, w) }
  \cup UNION { ResolverCaptchaManual(s, w, a) : a \in SinServicio(s, w) }

\* _resolver_captcha, lines 1073-1085, on page p: without the frame it
\* raises (1075-1076); the manual clicks follow every path through the
\* solver client that did not return True (1081-1085)
ResolverCaptcha(s, w, p) ==
  LET noIframe == [svc |-> s, world |-> w, exc |-> MsgNoIframe,
                   solver |-> FALSE, manual |-> FALSE, marco |-> FALSE,
                   auto |-> "no_run"]
  IN
  IF p \notin w.openPages THEN {noIframe}
  ELSE {noIframe}
       \cup ResolverCaptchaConServicio(s, w)
       \cup UNION { ResolverCaptchaManual(s, w, a) : a \in SinServicio(s, w) }

\* what both callers do with the outcome o of _resolver_captcha
TrasResolverSinReponer(o, p) ==
  IF o.exc # None THEN {o}
  ELSE { IF r # "ok"
           THEN [o EXCEPT !.exc = r, !.world = AfterOp(o.world, p, r)]
           ELSE IF TokenValido(ObtenerTokenCaptcha(o.world))
             THEN [o EXCEPT !.svc.captcha_token = Preview(ObtenerTokenCaptcha(o.world)),
                            !.svc.captcha_resuelto = TRUE]
             ELSE o
         : r \in OpOutcomes(o.world, p) }

\* what both callers do with the outcome o of _resolver_captcha
\* (_gestionar_captcha lines 916-929, _realizar_login lines 581-596):
\* re-read the textarea, which may raise, and set the flags
TrasResolver(o, p) ==
  IF o.exc # None THEN { [o EXCEPT !.svc.captcha_resuelto = FALSE] }
  ELSE { IF r # "ok"
           THEN [o EXCEPT !.svc.captcha_resuelto = FALSE, !.exc = r,
                          !.world = AfterOp(o.world, p, r)]
           ELSE IF TokenValido(ObtenerTokenCaptcha(o.world))
             THEN [o EXCEPT !.svc.captcha_token = Preview(ObtenerTokenCaptcha(o.world)),
                            !.svc.captcha_resuelto = TRUE]
             ELSE [o EXCEPT !.svc.captcha_resuelto = FALSE]
         : r \in OpOutcomes(o.world, p) }

\* _realizar_login, lines 581-600: the startup captcha, then return
LoginResolverCaptcha(t) ==
  /\ th[t].pc = "login_resolver"
  /\ \E o \in ResolverCaptcha(svc, world, th[t].login_servicios) :
       \E f \in TrasResolver(o, th[t].login_servicios) :
         LoginReturned(t, f.svc, f.world, th[t].login_servicios,
                       IF f.exc # None THEN "raise"
                       ELSE IF f.svc.captcha_resuelto THEN "ok" ELSE "short",
                       th[t].lg.bloqueos)
  /\ UNCHANGED <<workers, sol, hlp>>

\* ======================================================================
\* External Solver Client (TwoCaptchaService)
\* ======================================================================

\* what self.solver.recaptcha / self.solver.hcaptcha may answer: an exception,
\* a plain value, or a dictionary, here the sequence of its items in order
Raises == [k |-> "raise", v |-> PyNone, d |-> <<>>]
Plain(v) == [k |-> "val", v |-> v, d |-> <<>>]
Dict(d) == [k |-> "dict", v |-> PyNone, d |-> d]

SolverKeys == {"code", "token", "captchaId"}
SolverValues == {PyNone, PyStr(0), PyStr(50), PyStr(51), PyInt(0), PyInt(7)}
SolverDicts ==
  { d \in UNION { [1..n -> SolverKeys \X SolverValues] : n \in 0..MaxKeys } :
      \A i, j \in 1..Len(d) : d[i][1] = d[j][1] => i = j }
SolverResults ==
  {Raises} \cup {Plain(v) : v \in SolverValues} \cup {Dict(d) : d \in SolverDicts}

\* bool(v) of Python: None, "" and 0 are falsy
Truthy(v) == (v.t = "str" /\ v.n > 0) \/ (v.t = "int" /\ v.n # 0)
\* key in d, d[key]
Has(d, key) == \E i \in 1..Len(d) : d[i][1] = key
Get(d, key) == d[CHOOSE i \in 1..Len(d) : d[i][1] = key][2]
\* isinstance(value, str) and len(value) > 50
LongStr(v) == v.t = "str" /\ v.n > SOLVER_MIN
\* lines 50-54: the first item, in order, whose value is a long string
FirstLong(d) ==
  IF \E i \in 1..Len(d) : LongStr(d[i][2])
    THEN d[CHOOSE i \in 1..Len(d) :
             LongStr(d[i][2]) /\ \A j \in 1..(i - 1) : ~LongStr(d[j][2])][2]
    ELSE PyNone

\* lines 61-67: "if token and len(token) > 50"; len() of an integer raises
\* TypeError, which the except of line 69 turns into None
TokenFinal(token) ==
  IF ~Truthy(token) THEN PyNone
  ELSE IF token.t # "str" THEN PyNone
  ELSE IF token.n > SOLVER_MIN THEN token ELSE PyNone

\* lines 39-59: the token picked out of the response
TokenDeSoloCode(result) ==
  IF result.k = "dict" /\ Has(result.d, "code") THEN Get(result.d, "code")
  ELSE PyNone

TokenDe(result) ==
  IF result.k = "dict"
    THEN IF result.d = <<>> THEN PyNone
         ELSE IF Has(result.d, "code") THEN Get(result.d, "code")
         ELSE IF Has(result.d, "token") THEN Get(result.d, "token")
         ELSE FirstLong(result.d)
    ELSE IF Truthy(result.v) /\ LongStr(result.v) THEN result.v ELSE PyNone

\* TwoCaptchaService.solve_recaptcha_v2, lines 24-71
SolveRecaptchaV2(result) ==
  IF result.k = "raise" THEN PyNone ELSE TokenFinal(TokenDe(result))

\* TwoCaptchaService.solve_hcaptcha, lines 73-92: result["code"] as it is; on
\* a string or an integer the test or the subscript raises TypeError, or the
\* test is false, and None is returned
SolveHcaptcha(result) ==
  IF result.k = "dict" /\ result.d # <<>> /\ Has(result.d, "code")
    THEN Get(result.d, "code")
    ELSE PyNone

\* a call of the client with the answer the library will give
SolInit(fn, result) == [pc |-> "llamada", fn |-> fn, result |-> result, ret |-> PyNone]

SolverRecaptchaV2 ==
  /\ sol.pc = "llamada"
  /\ sol.fn = "solve_recaptcha_v2"
  /\ sol' = [sol EXCEPT !.pc = "retorno", !.ret = SolveRecaptchaV2(sol.result)]
  /\ UNCHANGED <<svc, world, th, workers, app, hlp>>

SolverHcaptcha ==
  /\ sol.pc = "llamada"
  /\ sol.fn = "solve_hcaptcha"
  /\ sol' = [sol EXCEPT !.pc = "retorno", !.ret = SolveHcaptcha(sol.result)]
  /\ UNCHANGED <<svc, world, th, workers, app, hlp>>

\* ======================================================================
\* Captcha resolver: the manual solver
\* ======================================================================

\* the digits the model draws: the low ones and the highest
Digitos == {d \in 0..DIGIT_MAX : d < MaxDigitos - 1 \/ d = DIGIT_MAX}

\* str(d) of a digit
Str(d) == <<"0", "1", "2", "3", "4", "5", "6", "7", "8", "9">>[d + 1]

\* _generar_secuencia_captcha, lines 1253-1256: every list it can return
GenerarSecuenciaCaptcha ==
  UNION {[1..n -> {Str(d) : d \in Digitos}] : n \in SEQ_MIN..(SEQ_MIN + SEQ_EXTRA)}

\* a call of _resolver_captcha_manual: the sequence, the entries whose click
\* was attempted, the failed ones, the click on Verificar and the outcome
ManualInit ==
  [pc |-> "llamada", fn |-> "_resolver_captcha_manual", numeros |-> <<>>,
   clics |-> <<>>, fallos |-> 0, verificar |-> "none", raised |-> FALSE]

\* lines 1190-1200 with the except of one entry that stops the loop
TrasClicSinContinue(h, r) ==
  LET c == Append(h.clics, h.numeros[Len(h.clics) + 1]) IN
  IF r # "ok"
  THEN [h EXCEPT !.clics = c, !.fallos = @ + 1, !.pc = "retorno", !.raised = TRUE]
  ELSE [h EXCEPT !.clics = c,
                 !.pc = IF Len(c) = Len(h.numeros) THEN "verificar" ELSE "numeros"]

\* lines 1190-1200: one entry of the loop; a failed wait or click is logged
\* and the loop continues with the next entry
TrasClic(h, r) ==
  LET c == Append(h.clics, h.numeros[Len(h.clics) + 1]) IN
  [h EXCEPT !.clics = c,
            !.fallos = IF r = "ok" THEN @ ELSE @ + 1,
            !.pc = IF Len(c) = Len(h.numeros) THEN "verificar" ELSE "numeros"]

\* lines 1186-1187: the sequence is generated before the first click
ManualGenerar ==
  /\ hlp.fn = "_resolver_captcha_manual"
  /\ hlp.pc = "llamada"
  /\ \E numeros \in GenerarSecuenciaCaptcha :
       hlp' = [hlp EXCEPT !.numeros = numeros, !.pc = "numeros"]
  /\ UNCHANGED <<svc, world, th, workers, app, sol>>

\* lines 1190-1200: wait_for and click on the element of the next entry
ManualClic ==
  /\ hlp.fn = "_resolver_captcha_manual"
  /\ hlp.pc = "numeros"
  /\ \E r \in {"ok", MsgTimeout} : hlp' = TrasClic(hlp, r)
  /\ UNCHANGED <<svc, world, th, workers, app, sol>>

\* lines 1202-1214: wait_for and click on the button Verificar; its failure is
\* logged and re-raised by both handlers
ManualVerificar ==
  /\ hlp.fn = "_resolver_captcha_manual"
  /\ hlp.pc = "verificar"
  /\ \E r \in {"ok", MsgTimeout} :
       hlp' = [hlp EXCEPT !.verificar = r, !.raised = (r # "ok"), !.pc = "retorno"]
  /\ UNCHANGED <<svc, world, th, workers, app, sol>>

\* ======================================================================
\* Captcha resolver: the challenge frame and the site key
\* ======================================================================

\* the src of an iframe by what the code asks of it: whether it includes
\* 'recaptcha' or 'googleapis', and the value of its k parameter when it is
\* the first of the query ("" if there is none)
Srcs == [host : {"recaptcha", "otro"}, k : {"", "K_SRC"}]
\* the name attribute of an iframe, letter by letter; <<>> when it has none
Names == {<<>>, <<"a", "-", "1">>, <<"m", "1">>}
IframeElements == [src : Srcs, name : Names]

\* a page: its iframe elements in document order; which of them is the first
\* iframe of the first '.g-recaptcha, [data-sitekey]' element (NoContenedor:
\* no such element, 0: it holds no iframe); the data-sitekey of the markup
NoContenedor == -1
Pages ==
  {[frames |-> fs, contenedor |-> c, sitekey |-> k] :
     fs \in UNION {[1..n -> IframeElements] : n \in 0..MaxFrames},
     c \in NoContenedor..MaxFrames,
     k \in {"", "K_HTML"}}

\* the pages that exist: the iframe of the container is one of the page, and
\* [data-sitekey] selects an element only if the attribute is there
PageOK(p) ==
  /\ p.contenedor <= Len(p.frames)
  /\ p.contenedor = NoContenedor => p.sitekey = ""

NoSelector == [t |-> "none", name |-> <<>>]
\* f'iframe[name="{name}"]'
Selector(name) == [t |-> "selector", name |-> name]

\* name.startsWith('a-') || name.startsWith('c-')
StartsWithAC(name) == Len(name) >= 2 /\ name[1] \in {"a", "c"} /\ name[2] = "-"

\* lines 1047-1048: the test of the fallback scan
Coincide(f) == f.src.host \in {"recaptcha", "googleapis"} \/ StartsWithAC(f.name)

\* lines 1010-1037: the iframe of the first container, if it has a name
PorContenedor(p, r) ==
  IF r # "ok" \/ p.contenedor \in {NoContenedor, 0} THEN NoSelector
  ELSE IF p.frames[p.contenedor].name # <<>> THEN Selector(p.frames[p.contenedor].name)
  ELSE NoSelector

\* lines 1040-1066: the first iframe of the page that passes the test, if it
\* has a name
PorBarrido(p, r) ==
  LET cs == {k \in 1..Len(p.frames) : Coincide(p.frames[k])} IN
  IF r # "ok" \/ cs = {} THEN NoSelector
  ELSE LET f == p.frames[CHOOSE k \in cs : \A j \in cs : k <= j] IN
       IF f.name # <<>> THEN Selector(f.name) ELSE NoSelector

\* _encontrar_captcha_iframe, lines 1007-1071; r1 and r2 are the outcomes of
\* the page queries of the two searches, each caught by its own handler
EncontrarCaptchaIframe(p, r1, r2) ==
  IF PorContenedor(p, r1) # NoSelector THEN PorContenedor(p, r1)
  ELSE PorBarrido(p, r2)

IframeInit(p) == [pc |-> "llamada", fn |-> "_encontrar_captcha_iframe", page |-> p]

HlpEncontrarCaptchaIframe ==
  /\ hlp.fn = "_encontrar_captcha_iframe"
  /\ hlp.pc = "llamada"
  /\ \E r1 \in {"ok", MsgTimeout}, r2 \in {"ok", MsgTimeout} :
       hlp' = [pc |-> "retorno", fn |-> hlp.fn, page |-> hlp.page,
               r1 |-> r1, r2 |-> r2,
               ret |-> EncontrarCaptchaIframe(hlp.page, r1, r2)]
  /\ UNCHANGED <<svc, world, th, workers, app, sol>>

\* lines 1222-1230: the src of the located iframe and the three patterns on
\* it; get_attribute is strict, it raises when the selector matches two
\* elements. The result is a key, None ("nothing found") or "exc"
PorSrc(p, sel, rs) ==
  LET ms == {k \in 1..Len(p.frames) : p.frames[k].name = sel.name} IN
  IF sel = NoSelector \/ ms = {} THEN None
  ELSE IF rs # "ok" \/ Cardinality(ms) > 1 THEN "exc"
  ELSE LET src == p.frames[CHOOSE k \in ms : TRUE].src IN
       IF src.k # "" THEN src.k ELSE None

\* lines 1233-1245: the four patterns on page.content(): the data-sitekey
\* attribute first, then a k parameter in the markup of an iframe
PorHtml(p, rh) ==
  LET ks == {k \in 1..Len(p.frames) : p.frames[k].src.k # ""} IN
  IF rh # "ok" THEN "exc"
  ELSE IF p.sitekey # "" THEN p.sitekey
  ELSE IF ks # {} THEN p.frames[CHOOSE k \in ks : \A j \in ks : k <= j].src.k
  ELSE None

\* _extraer_site_key with the scan of the markup before the src of the iframe
ExtraerSiteKeyHtmlPrimero(p, sel, rs, rh) ==
  LET h == PorHtml(p, rh) IN
  IF h = "exc" THEN [ret |-> None, html |-> TRUE]
  ELSE IF h # None THEN [ret |-> h, html |-> TRUE]
  ELSE LET m == PorSrc(p, sel, rs) IN
       [ret |-> IF m = "exc" THEN None ELSE m, html |-> TRUE]

\* _extraer_site_key, lines 1216-1250: the key of the iframe's src, else the
\* key of the markup, else None; any exception is logged and gives None.
\* html tells whether page.content() was called
ExtraerSiteKey(p, sel, rs, rh) ==
  LET m == PorSrc(p, sel, rs) IN
  IF m = "exc" THEN [ret |-> None, html |-> FALSE]
  ELSE IF m # None THEN [ret |-> m, html |-> FALSE]
  ELSE LET h == PorHtml(p, rh) IN
       [ret |-> IF h = "exc" THEN None ELSE h, html |-> TRUE]

SiteKeyInit(p) == [pc |-> "llamada", fn |-> "_extraer_site_key", page |-> p]

HlpExtraerSiteKey ==
  /\ hlp.fn = "_extraer_site_key"
  /\ hlp.pc = "llamada"
  /\ \E r1 \in {"ok", MsgTimeout}, r2 \in {"ok", MsgTimeout},
        rs \in {"ok", MsgTimeout}, rh \in {"ok", MsgTimeout} :
       LET sel == EncontrarCaptchaIframe(hlp.page, r1, r2)
           o == ExtraerSiteKey(hlp.page, sel, rs, rh) IN
       hlp' = [pc |-> "retorno", fn |-> hlp.fn, page |-> hlp.page,
               sel |-> sel, rs |-> rs, rh |-> rh,
               html |-> o.html, ret |-> o.ret]
  /\ UNCHANGED <<svc, world, th, workers, app, sol>>

\* ======================================================================
\* Result extractor: the display name
\* ======================================================================

\* a stripped line of the frame text by what the code asks of it: its length,
\* str.isdigit(), and whether it holds "Variable:", "%" and "$"
Linea(texto, len, digitos, variable, pct, dol) ==
  [texto |-> texto, len |-> len, isdigit |-> digitos, variable |-> variable,
   pct |-> pct, dol |-> dol]

Lineas ==
  { Linea("EMPRESA EJEMPLO SA", 18, FALSE, FALSE, FALSE, FALSE),
    Linea("YPF", 3, FALSE, FALSE, FALSE, FALSE),
    Linea("30717692221", 11, TRUE, FALSE, FALSE, FALSE),
    Linea("Variable: 2.50% / Fija: $0.60", 29, FALSE, TRUE, TRUE, TRUE),
    Linea("", 0, FALSE, FALSE, FALSE, FALSE) }

\* contenido.split('\n') of every text of up to MaxLineas lines
Contenidos == UNION {[1..n -> Lineas] : n \in 1..MaxLineas}

\* the first of the lines at the positions ks, None if there is none
Primera(lineas, ks) ==
  IF ks = {} THEN None
  ELSE lineas[CHOOSE k \in ks : \A j \in ks : k <= j].texto

\* lines 1378-1379: the test of the first loop
PasaPrimero(l) ==
  /\ l.len > 0 /\ ~l.variable /\ ~l.pct /\ ~l.dol
  /\ l.len > 3 /\ ~l.isdigit

\* line 1385: the test of the second loop
PasaSegundo(l) == l.len > 0 /\ l.len > 5 /\ ~l.variable /\ ~l.pct

\* _extraer_nombre_desde_contenido, lines 1370-1388, on a text that is not
\* empty
ExtraerNombreDesdeContenido(lineas) ==
  LET primero == {k \in 1..Len(lineas) : PasaPrimero(lineas[k])}
      segundo == {k \in 1..Len(lineas) : PasaSegundo(lineas[k])} IN
  IF primero # {} THEN Primera(lineas, primero) ELSE Primera(lineas, segundo)

NombreInit(c) == [pc |-> "llamada", fn |-> "_extraer_nombre_desde_contenido", contenido |-> c]

HlpExtraerNombre ==
  /\ hlp.fn = "_extraer_nombre_desde_contenido"
  /\ hlp.pc = "llamada"
  /\ hlp' = [pc |-> "retorno", fn |-> hlp.fn, contenido |-> hlp.contenido,
             ret |-> ExtraerNombreDesdeContenido(hlp.contenido)]
  /\ UNCHANGED <<svc, world, th, workers, app, sol>>

\* ======================================================================
\* Query Pipeline
\* ======================================================================

\* an entry of resultados (lines 760-765, 772-777, 784-789)
Resultado(cuit, alicuota, nombre, error) ==
  [cuit |-> cuit, alicuota |-> alicuota, nombre |-> nombre, error |-> error]

\* f"Error: {str(e)}"
ErrorDe(m) == "Error: " \o m

Actua(r) ==
  [r EXCEPT !.acted = @ \cup {r.i}, !.cap = NoCap, !.lg = NoLg, !.ext = NoExt,
            !.nav = NoNav]

\* a step of the loop is called for the current identifier
Paso(r, nombre) == [Actua(r) EXCEPT !.pasos.s = Append(@, nombre)]

\* resultados.append(entry), then the next iteration of the for loop, or the
\* return of the list when cuits is exhausted
Siguiente(r, entry) ==
  [r EXCEPT !.resultados = Append(@, entry),
            !.i = @ + 1, !.intento = 0, !.exc = None,
            !.pc = IF r.i + 1 > Len(r.cuits) THEN "done" ELSE "renovar"]

\* an exception left a step of the try block (line 782)
Lanza(r, m) == [r EXCEPT !.pc = "except", !.exc = m, !.raised = @ \cup {r.i}]

\* the entry of the except branch, lines 784-789
EntradaErrorSinError(cuit, exc) == Resultado(cuit, None, None, None)

EntradaError(cuit, exc) == Resultado(cuit, None, None, ErrorDe(exc))

\* lines 790-791: the next identifier after a reset that went through, the
\* break out of the loop otherwise; the list is returned as it is
TrasErrorSinBreak(r, entry, sigue) ==
  IF sigue THEN Siguiente(r, entry)
  ELSE [Siguiente(r, entry) EXCEPT !.aborted = r.i]

TrasError(r, entry, sigue) ==
  IF sigue THEN Siguiente(r, entry)
  ELSE [r EXCEPT !.resultados = Append(@, entry), !.aborted = r.i, !.pc = "done"]

\* _verificar_y_renovar_sesion + _verificar_sesion_vencida + the page closing
\* of _rehacer_login, lines 806-814, 651-664, 666-679
VerificarYRenovarSesion(t) ==
  /\ th[t].pc = "renovar"
  /\ LET p == th[t].servicios_page
         r == [Actua(th[t]) EXCEPT !.pasos = [i |-> th[t].i, s |-> <<"renovar">>],
                                   !.visitas = Append(@, th[t].i)]
     IN
     \E rc \in OpOutcomes(world, p), vencida \in BOOLEAN :
       IF rc # "ok" \/ ~vencida
         THEN \* page.content() raised (caught, line 662) or no expiry marker
              /\ th' = Set(t, AfterRenovar(r))
              /\ world' = AfterOp(world, p, rc)
              /\ UNCHANGED svc
         ELSE \* _rehacer_login: close svc.servicios_page and svc.login_page
              /\ world' = [world EXCEPT !.openPages =
                             @ \ {svc.servicios_page, svc.login_page}]
              /\ th' = Set(t, [r EXCEPT !.pc = "login", !.ret = "relogin"])
              /\ UNCHANGED svc
  /\ UNCHANGED <<workers, app, sol, hlp>>

\* _resetear_formulario, lines 831-852 (with _cerrar_modal and
\* _verificar_y_corregir_url, which swallow every exception): the probe raises
\* RuntimeError(MsgPaginaCerro), re-raised only if the message holds "closed"
ResetearFormulario(t) ==
  /\ th[t].pc = "reset"
  /\ LET p == th[t].servicios_page IN
     \E probe \in OpOutcomes(world, p) :
       LET r == [Paso(th[t], "reset") EXCEPT !.nav.probe = probe] IN
       /\ world' = AfterOp(world, p, probe)
       /\ IF probe # "ok" /\ ( ContainsConnectionClosed(MsgPaginaCerro)
                               \/ ContainsClosedLower(MsgPaginaCerro) )
            THEN th' = Set(t, Lanza(r, MsgPaginaCerro))
            ELSE th' = Set(t, [r EXCEPT !.pc = "url"])
  /\ UNCHANGED <<svc, workers, app, sol, hlp>>

\* the current URL of the services page, by the substrings the drift check
\* looks for: "/home/Servicios.aspx" (home), "Servicios.aspx" (serv),
\* "/Consultas/Alicuotas" (cons), "/Consultas/Alicuotas/Default.aspx" (def)
Urls ==
  { u \in [home : BOOLEAN, serv : BOOLEAN, cons : BOOLEAN, def : BOOLEAN] :
      (u.home => u.serv) /\ (u.def => u.cons) }

\* the drift check with its second test alone
DerivaSoloDefault(u) == ~u.def

\* lines 858-865: the two tests under which page.goto is called
Deriva(u) ==
  IF u.home \/ (u.serv /\ ~u.cons) THEN TRUE
  ELSE ~u.def

\* _verificar_y_corregir_url, lines 854-868: never raises; page.url is read
\* from the page object, page.goto may raise and is swallowed (line 867)
VerificarYCorregirUrl(t) ==
  /\ th[t].pc = "url"
  /\ LET p == th[t].servicios_page
         r == [Paso(th[t], "url") EXCEPT !.pc = "cuit"] IN
     \E u \in Urls :
       LET n == [NoNav EXCEPT !.visto = TRUE, !.home = u.home, !.def = u.def] IN
       IF Deriva(u)
         THEN \E rc \in OpOutcomes(world, p) :
                /\ world' = AfterOp(world, p, rc)
                /\ th' = Set(t, [r EXCEPT !.nav = [n EXCEPT !.goto = TRUE,
                                                             !.res = rc]])
         ELSE /\ world' = world
              /\ th' = Set(t, [r EXCEPT !.nav = n])
  /\ UNCHANGED <<svc, workers, app, sol, hlp>>

\* _ingresar_cuit, lines 870-895: wait_for / fill may raise
IngresarCuit(t) ==
  /\ th[t].pc = "cuit"
  /\ LET p == th[t].servicios_page
         r == Paso(th[t], "cuit")
     IN
     \E rc \in OpOutcomes(world, p) :
       /\ world' = AfterOp(world, p, rc)
       /\ IF rc = "ok"
            THEN th' = Set(t, [r EXCEPT !.pc = "captcha", !.intento = 1])
            ELSE th' = Set(t, Lanza(r, rc))
  /\ UNCHANGED <<svc, workers, app, sol, hlp>>

\* lines 753-769 of the loop, after _gestionar_captcha returned with svc s:
\* one retry, then the captcha error entry, or the query
TrasGestionarBreak(r, s) ==
  IF s.captcha_resuelto THEN [r EXCEPT !.pc = "consultar"]
  ELSE IF r.intento = 1 THEN [r EXCEPT !.pc = "captcha", !.intento = 2]
  ELSE [r EXCEPT !.resultados =
                   Append(@, Resultado(r.cuits[r.i], None, None, MsgCaptcha)),
                 !.pc = "done"]

TrasGestionarSinSegundoControl(r, s) ==
  IF s.captcha_resuelto \/ r.intento = 2 THEN [r EXCEPT !.pc = "consultar"]
  ELSE [r EXCEPT !.pc = "captcha", !.intento = 2]

\* lines 753-757 as a loop: handling is retried for as long as the captcha is
\* not resolved
TrasGestionarSinLimite(r, s) ==
  IF s.captcha_resuelto THEN [r EXCEPT !.pc = "consultar"]
  ELSE [r EXCEPT !.pc = "captcha", !.intento = 2]

TrasGestionar(r, s) ==
  IF s.captcha_resuelto THEN [r EXCEPT !.pc = "consultar"]
  ELSE IF r.intento = 1 THEN [r EXCEPT !.pc = "captcha", !.intento = 2]
  ELSE Siguiente(r, Resultado(r.cuits[r.i], None, None, MsgCaptcha))

\* _gestionar_captcha, lines 897-915: the reuse of a token already present,
\* or the start of a resolve
GestionarCaptcha(t) ==
  /\ th[t].pc = "captcha"
  /\ LET p == th[t].servicios_page
         r == [Paso(th[t], "captcha") EXCEPT
                 !.cap = [NoCap EXCEPT !.pre = world.textarea]]
     IN
     \E rc \in OpOutcomes(world, p) :
       IF rc # "ok"
         THEN \* _obtener_token_captcha raised, outside the try (line 900)
              /\ world' = AfterOp(world, p, rc)
              /\ th' = Set(t, Lanza([r EXCEPT !.cap.raised = TRUE], rc))
              /\ UNCHANGED svc
         ELSE IF TokenValido(ObtenerTokenCaptcha(world))
           THEN LET s == [svc EXCEPT
                            !.captcha_token = Preview(ObtenerTokenCaptcha(world)),
                            !.captcha_resuelto = TRUE] IN
                /\ svc' = s
                /\ th' = Set(t, TrasGestionar(r, s))
                /\ UNCHANGED world
           ELSE \E esperar \in OpOutcomes(world, p) :
                  LET r2 == [r EXCEPT !.cap.lookup = TRUE] IN
                  /\ world' = AfterOp(world, p, esperar)
                  /\ IF esperar = MsgTimeout
                       THEN \* wait_for_selector raised: lines 927-931
                            LET s == [svc EXCEPT !.captcha_resuelto = FALSE,
                                                 !.captcha_resolviendo = FALSE] IN
                            /\ svc' = s
                            /\ th' = Set(t, TrasGestionar(r2, s))
                       ELSE /\ svc' = [svc EXCEPT !.captcha_resolviendo = TRUE]
                            /\ th' = Set(t, [r2 EXCEPT !.pc = "resolver"])
  /\ UNCHANGED <<workers, app, sol, hlp>>

\* _gestionar_captcha, lines 916-931: the resolve, the re-read of the token,
\* the flags
GestionarCaptchaResolver(t) ==
  /\ th[t].pc = "resolver"
  /\ LET p == th[t].servicios_page IN
     \E o \in ResolverCaptcha(svc, world, p) :
       \E f \in TrasResolver(o, p) :
         LET s == [f.svc EXCEPT !.captcha_resolviendo = FALSE]
             r == [th[t] EXCEPT !.cap.solver = o.solver, !.cap.manual = o.manual,
                                !.cap.marco = o.marco, !.cap.auto = o.auto,
                                !.cap.res = o.exc]
         IN
         /\ svc' = s
         /\ world' = f.world
         /\ th' = Set(t, TrasGestionar(r, s))
  /\ UNCHANGED <<workers, app, sol, hlp>>

\* _consultar_alicuota, lines 933-986: the click through page.evaluate may
\* raise; the wait for the result frame never does. The site may consume the
\* token of the submitted form
ConsultarAlicuota(t) ==
  /\ th[t].pc = "consultar"
  /\ LET p == th[t].servicios_page
         r == Paso(th[t], "consultar")
     IN
     \E rc \in OpOutcomes(world, p) :
       IF rc # "ok"
         THEN /\ world' = AfterOp(world, p, rc)
              /\ th' = Set(t, Lanza(r, rc))
         ELSE \E ta \in {world.textarea, 0} :
                /\ world' = [world EXCEPT !.textarea =
                               IF world.textarea = NoTextarea THEN NoTextarea ELSE ta]
                /\ th' = Set(t, [r EXCEPT !.pc = "extraer"])
  /\ UNCHANGED <<svc, workers, app, sol, hlp>>

\* ======================================================================
\* Result Extractor
\* ======================================================================
SinAlicuota == "No se pudo extraer la alicuota"
SinAlicuotaTimeout == "No se pudo extraer la alicuota (timeout)"
NoDisponible == "No disponible"

\* label texts, as the sequence of their words, blanks and signs:
\* "Variable: 2.50% / Fija: $0.60" and "Variable:  / Fija: $0.60"
LabelRate == <<"Variable:", " ", "2.50%", " ", "/", " ", "Fija:", " ", "$0.60">>
LabelBlank == <<"Variable:", " ", " ", "/", " ", "Fija:", " ", "$0.60">>

\* the result frame the site renders, as <<label text, name>>: empty, with
\* the rate and the name, or with a blank rate and no name; the name is the
\* line _extraer_nombre_desde_contenido picks (lines 1370-1388)
Frames ==
  { <<<<>>, None>>,
    <<LabelRate, "EMPRESA EJEMPLO SA">>,
    <<LabelBlank, None>> }

\* the first position of word m in seq from position k on, Len(seq) + 1 if none
Find(seq, m, k) ==
  IF \E i \in k..Len(seq) : seq[i] = m
    THEN CHOOSE i \in k..Len(seq) : seq[i] = m /\ \A j \in k..(i - 1) : seq[j] # m
    ELSE Len(seq) + 1
\* seq.split(m)[1], for a seq that holds m
SplitSecond(seq, m) ==
  LET a == Find(seq, m, 1) IN SubSeq(seq, a + 1, Find(seq, m, a + 1) - 1)
\* seq.split(m)[0]
SplitFirst(seq, m) == SubSeq(seq, 1, Find(seq, m, 1) - 1)
\* seq.strip()
Strip(seq) ==
  LET solid == {i \in 1..Len(seq) : seq[i] # " "} IN
  IF solid = {} THEN <<>>
  ELSE SubSeq(seq, CHOOSE i \in solid : \A j \in solid : i <= j,
                   CHOOSE i \in solid : \A j \in solid : j <= i)
\* the words of seq as one string
RECURSIVE Join(_)
Join(seq) == IF seq = <<>> THEN "" ELSE Head(seq) \o Join(Tail(seq))

\* lines 1308-1310: texto.split("Variable:")[1].split("/")[0].strip(), under
\* 'if texto_completo and "Variable:" in texto_completo'
AlicuotaDe(texto) ==
  IF texto # <<>> /\ Find(texto, "Variable:", 1) <= Len(texto)
    THEN Join(Strip(SplitFirst(SplitSecond(texto, "Variable:"), "/")))
    ELSE None

\* "x if x else d": None and the empty string are falsy
SiNoSinDefecto(x, d) == x

SiNo(x, d) == IF x = None \/ x = "" THEN d ELSE x

\* _resultado_error, lines 1390-1395
ResultadoError(alicuota, nombre) == [alicuota |-> alicuota, nombre |-> nombre]

\* _extraer_alicuota with the degraded returns left without their sentinel
ExtraerAlicuotaSinCentinela(donde, texto, nombre) ==
  IF donde = "datos" /\ AlicuotaDe(texto) # None /\ AlicuotaDe(texto) # ""
    THEN [alicuota |-> AlicuotaDe(texto), nombre |-> SiNo(nombre, NoDisponible)]
    ELSE ResultadoError(None, SiNo(nombre, NoDisponible))

\* _extraer_alicuota, lines 1258-1325, by the checkpoint at which it returns:
\* "sin_frame" (1268, 1294, 1321), "timeout" (1281, 1297), "timeout_nombre"
\* (1306), "excepcion" (1325), "datos" (1314)
ExtraerAlicuota(donde, texto, nombre) ==
  CASE donde = "sin_frame" -> ResultadoError(SinAlicuota, NoDisponible)
    [] donde = "excepcion" -> ResultadoError(ErrorDe(MsgClosed), NoDisponible)
    [] donde = "timeout" -> ResultadoError(SinAlicuotaTimeout, NoDisponible)
    [] donde = "timeout_nombre" ->
         ResultadoError(SinAlicuotaTimeout, SiNo(nombre, NoDisponible))
    [] OTHER -> [alicuota |-> SiNo(AlicuotaDe(texto), SinAlicuota),
                 nombre |-> SiNo(nombre, NoDisponible)]

\* lines 771-780 of the loop: extract, append the entry with error None
Extraer(t) ==
  /\ th[t].pc = "extraer"
  /\ LET p == th[t].servicios_page
         r == Paso(th[t], "extraer")
     IN
     \E donde \in {"sin_frame", "timeout", "timeout_nombre", "excepcion", "datos"},
        frame \in Frames :
       LET texto == frame[1]
           nombre == frame[2] IN
       LET resultado == ExtraerAlicuota(donde, texto, nombre) IN
       th' = Set(t, [Siguiente(r, Resultado(r.cuits[r.i], resultado.alicuota,
                                            resultado.nombre, None))
                       EXCEPT !.ext = [donde |-> donde, texto |-> texto,
                                       nombre |-> nombre]])
  /\ UNCHANGED <<svc, world, workers, app, sol, hlp>>

\* _intentar_resetear_pagina, lines 988-1005, by the outcome of the probe
\* and of the click
IntentarResetearPagina(probe, click) ==
  IF probe # "ok" THEN FALSE
  ELSE IF click = "ok" THEN TRUE
  ELSE ~(ContainsClosedLower(click) \/ ContainsConnection(click))

\* the except branch of the loop, lines 782-791
ManejarError(t) ==
  /\ th[t].pc = "except"
  /\ LET p == th[t].servicios_page
         r == [th[t] EXCEPT !.cap = NoCap, !.resets = Append(@, th[t].i)]
         entry == EntradaError(r.cuits[r.i], r.exc)
     IN
     \E probe \in OpOutcomes(world, p) :
       \E click \in OpOutcomes(AfterOp(world, p, probe), p) :
         /\ world' = AfterOp(AfterOp(world, p, probe), p, click)
         /\ th' = Set(t, TrasError(r, entry, IntentarResetearPagina(probe, click)))
  /\ UNCHANGED <<svc, workers, app, sol, hlp>>

\* obtener_alicuotas_async of the controller: the list is returned, or the
\* RuntimeError of obtener_alicuotas becomes an HTTP 500
Responder(t) ==
  /\ th[t].pc \in {"done", "failed"}
  /\ th' = Set(t, ThreadIdle)
  /\ UNCHANGED <<svc, world, workers, app, sol, hlp>>

\* the resources cerrar_sesion releases, in its order (lines 690-699)
Recurso(s, k) ==
  CASE k = 1 -> s.servicios_page
    [] k = 2 -> s.login_page
    [] k = 3 -> s.page
    [] k = 4 -> <<s.browser, 0>>
    [] OTHER -> <<s.playwright, 0>>

\* cerrar_sesion, lines 688-712, run by shutdown_event: the close calls in
\* order inside one try, each under "if self.<field>"; the first that raises
\* skips the rest and the resets
CerrarSesion(t) ==
  /\ app.phase = "serving"
  /\ t \in workers
  /\ \A u \in Threads : th[u].pc = "idle"
  /\ \E falla \in {0} \cup {k \in 1..5 : Recurso(svc, k) # Recurso(ServiceInit(TRUE), k)} :
       LET hecho(k) == falla = 0 \/ k < falla
           w1 == IF hecho(1) THEN ClosePage(world, svc.servicios_page) ELSE world
           w2 == IF hecho(2) THEN ClosePage(w1, svc.login_page) ELSE w1
           w3 == IF hecho(3) THEN ClosePage(w2, svc.page) ELSE w2
           w4 == IF hecho(4) /\ svc.browser # NoRef
                   THEN [w3 EXCEPT !.liveBrowsers = @ \ {svc.browser},
                                   !.openPages = {q \in @ : q[1] # svc.browser}]
                   ELSE w3
           w5 == IF hecho(5) /\ svc.playwright # NoRef
                   THEN [w4 EXCEPT !.liveDrivers = @ \ {svc.playwright},
                                   !.liveBrowsers = @ \ {svc.playwright},
                                   !.openPages = {q \in @ : q[1] # svc.playwright}]
                   ELSE w4
       IN
       /\ world' = w5
       /\ svc' = IF falla = 0
                   THEN [svc EXCEPT !.servicios_page = NoPage, !.login_page = NoPage,
                                    !.page = NoPage, !.browser = NoRef,
                                    !.context = NoRef, !.playwright = NoRef,
                                    !.session_ready = FALSE]
                   ELSE svc
       /\ app' = [app EXCEPT !.phase = "closed", !.falla = falla,
                              !.lanzados = world.launched]
  /\ th' = [u \in Threads |-> [th[u] EXCEPT !.lg = NoLg]]
  /\ UNCHANGED <<workers, sol, hlp>>

\* the steps a request for a single identifier can take: the form is reset
\* only before the second and later identifiers (line 735)
PrimerCuit(t) ==
  \/ ObtenerAlicuotas(t)
  \/ InicializarSesion(t)
  \/ RealizarLogin(t)
  \/ LoginResolverCaptcha(t)
  \/ VerificarYRenovarSesion(t)
  \/ VerificarYCorregirUrl(t)
  \/ IngresarCuit(t)
  \/ GestionarCaptcha(t)
  \/ GestionarCaptchaResolver(t)
  \/ ConsultarAlicuota(t)
  \/ Extraer(t)
  \/ ManejarError(t)
  \/ Responder(t)
  \/ CerrarSesion(t)

Pipeline(t) == PrimerCuit(t) \/ ResetearFormulario(t)

Next == \E t \in Threads : Startup(t) \/ Pipeline(t)

\* the application from construction to shutdown, serving one batch request
Spec == Init /\ [][Next]_vars

\* the same with every browser wait returning or timing out: a thread that
\* can take a step of its call takes it
SpecLive == Init /\ [][Next]_vars /\ \A t \in Threads : WF_vars(Pipeline(t))

\* the serving phase after a startup that logged in through the portal link:
\* the initial page, the login popup and the services page are open
ServiceReady(twocaptcha) ==
  [ServiceInit(twocaptcha) EXCEPT
     !.playwright = 1, !.browser = 1, !.context = 1, !.page = <<1, 1>>,
     !.servicios_page = <<1, 3>>, !.session_ready = TRUE]

WorldReady(ta) ==
  [WorldInit EXCEPT !.launched = 1, !.liveDrivers = {1}, !.liveBrowsers = {1},
                    !.nextPage = 4, !.openPages = {<<1, 1>>, <<1, 2>>, <<1, 3>>},
                    !.textarea = ta]

\* requests for one identifier each arrive while another is being served:
\* run_in_executor(None, ...) hands each to its own thread of the default pool
InitConc ==
  /\ svc = ServiceReady(TRUE)
  /\ world = WorldReady(0)
  /\ th = [t \in Threads |-> ThreadIdle]
  /\ workers = Threads
  /\ app = [AppInit("serving", MaxRequests, 1, FALSE) EXCEPT !.login = "returned"]
  /\ sol = SolIdle
  /\ hlp = HlpIdle

NextConc == \E t \in Threads : PrimerCuit(t)

SpecConc == InitConc /\ [][NextConc]_vars

\* the service object called after its close: cerrar_sesion and a request for
\* one identifier, in either order, from a ready session
InitCierre ==
  /\ svc = ServiceReady(TRUE)
  /\ world = WorldReady(0)
  /\ th = [t \in Threads |-> ThreadIdle]
  /\ workers = {1}
  /\ app = [AppInit("serving", 1, 1, TRUE) EXCEPT !.login = "returned"]
  /\ sol = SolIdle
  /\ hlp = HlpIdle

SpecCierre == InitCierre /\ [][NextConc]_vars

\* one call of the solver client, of either operation, on any answer of the
\* library; the browser session plays no part
InitSolver ==
  /\ svc = ServiceInit(TRUE)
  /\ world = WorldInit
  /\ th = [t \in Threads |-> ThreadIdle]
  /\ workers = {}
  /\ app = AppInit("serving", 0, 0, FALSE)
  /\ sol \in {SolInit(fn, r) : fn \in {"solve_recaptcha_v2", "solve_hcaptcha"},
                                r \in SolverResults}
  /\ hlp = HlpIdle

NextSolver == SolverRecaptchaV2 \/ SolverHcaptcha

SpecSolver == InitSolver /\ [][NextSolver]_vars

\* one call of a helper of the captcha resolver or of the result extractor on
\* a page of its own; the session plays no part
InitHelpers ==
  /\ svc = ServiceInit(TRUE)
  /\ world = WorldInit
  /\ th = [t \in Threads |-> ThreadIdle]
  /\ workers = {}
  /\ app = AppInit("serving", 0, 0, FALSE)
  /\ sol = SolIdle
  /\ hlp \in {ManualInit} \cup {IframeInit(p) : p \in {q \in Pages : PageOK(q)}}
              \cup {SiteKeyInit(p) : p \in {q \in Pages : PageOK(q)}}
              \cup {NombreInit(c) : c \in Contenidos}

NextHelpers ==
  \/ ManualGenerar \/ ManualClic \/ ManualVerificar
  \/ HlpEncontrarCaptchaIframe
  \/ HlpExtraerSiteKey
  \/ HlpExtraerNombre

SpecHelpers == InitHelpers /\ [][NextHelpers]_vars

\* ======================================================================
\* Properties of the batch pipeline
\* ======================================================================
Returned(t) == th[t].pc = "done"
EntradaConError(e) == e.error # None /\ e.alicuota = None /\ e.nombre = None
EntradaConDatos(e) == e.error = None /\ e.alicuota # None /\ e.nombre # None

\* C1: the list returned for a batch of N identifiers has exactly N entries
\* and entry i carries the i-th identifier, whatever failed on the way
C1_LongitudYOrden ==
  \A t \in Threads :
    Returned(t) =>
      /\ Len(th[t].resultados) = Len(th[t].cuits)
      /\ \A k \in 1..Len(th[t].cuits) : th[t].resultados[k].cuit = th[t].cuits[k]

\* C2: when the batch is aborted at identifier k, every identifier after k
\* has an entry in the returned list, with the error recorded for k
C2_RellenoTrasAbortar ==
  \A t \in Threads :
    (Returned(t) /\ th[t].aborted # 0) =>
      \A j \in (th[t].aborted + 1)..Len(th[t].cuits) :
        /\ j <= Len(th[t].resultados)
        /\ th[t].resultados[j].error = th[t].resultados[th[t].aborted].error

\* C3: once the batch is aborted at identifier k, no step of the loop has
\* acted or acts for an identifier after k
C3_NadaTrasAbortar ==
  \A t \in Threads :
    th[t].aborted # 0 =>
      /\ \A j \in th[t].acted : j <= th[t].aborted
      /\ th[t].i = th[t].aborted
      /\ Returned(t)

C3_Witness ==
  \E t \in Threads :
    /\ th[t].aborted # 0
    /\ th[t].aborted < Len(th[t].cuits)
    /\ th[t].aborted \in th[t].acted

\* C4: an identifier whose processing raised has an entry with a non-null
\* error and null alicuota and nombre, under its own cuit
C4_ErrorSinDatos ==
  \A t \in Threads :
    \A k \in th[t].raised :
      (k < th[t].i \/ Returned(t)) =>
        /\ k <= Len(th[t].resultados)
        /\ EntradaConError(th[t].resultados[k])
        /\ th[t].resultados[k].cuit = th[t].cuits[k]

C4_Witness ==
  \E t \in Threads :
    /\ Returned(t)
    /\ th[t].raised # {}
    /\ \E k \in 1..Len(th[t].resultados) :
         k \notin th[t].raised /\ EntradaConDatos(th[t].resultados[k])

\* C5: unless the reset after a failure reported a lost connection, every
\* identifier of the batch is processed: a failed identifier k is followed by
\* the processing of k+1
C5_SigueTrasFallo ==
  \A t \in Threads :
    /\ (th[t].op = "obtener_alicuotas" /\ th[t].aborted = 0) =>
         \A k \in 1..Len(th[t].resultados) : k \in th[t].acted
    /\ (Returned(t) /\ th[t].aborted = 0) =>
         /\ th[t].acted = 1..Len(th[t].cuits)
         /\ Len(th[t].resultados) = Len(th[t].cuits)

C5_Witness ==
  \E t \in Threads :
    /\ Returned(t)
    /\ th[t].aborted = 0
    /\ Len(th[t].cuits) >= 2
    /\ 1 \in th[t].raised
    /\ th[t].resultados[2].error = MsgCaptcha

\* C6: every entry of a result list has an error and no data, or data and no
\* error
C6_DosFormas ==
  \A t \in Threads :
    \A k \in 1..Len(th[t].resultados) :
      \/ EntradaConError(th[t].resultados[k])
      \/ EntradaConDatos(th[t].resultados[k])

C6_Witness ==
  \E t \in Threads :
    /\ Len(th[t].resultados) >= 2
    /\ th[t].resultados[1].alicuota = SinAlicuota
    /\ th[t].resultados[1].nombre = NoDisponible
    /\ EntradaConError(th[t].resultados[2])


\* ======================================================================
\* Properties of the session
\* ======================================================================
InFlight(t) == th[t].pc \notin {"idle", "done", "failed"}

\* C7: at most one batch is in flight against the shared session at any
\* time: no request has begun its browser operations while another request
\* that began its own has not returned
C7_UnSoloLoteEnVuelo ==
  \A t, u \in Threads :
    ( /\ InFlight(t) /\ th[t].acted # {}
      /\ InFlight(u) /\ th[u].acted # {} ) => t = u

\* C8: at most one browser launched by the service is alive at any moment
C8_UnSoloNavegador == Cardinality(world.liveBrowsers) <= 1

\* C9: a browsing context never holds more than two open pages
C9_DosPaginas ==
  \A b \in world.liveBrowsers : Cardinality(PagesOf(world, b)) <= 2

\* C10: when captcha handling finds a token longer than 50 characters in the
\* response field, it returns with captcha_resuelto true, and no challenge-
\* frame lookup, solver request or manual click sequence was made
C10_ReusoDeToken ==
  \A t \in Threads :
    (th[t].cap.pre > TOKEN_MIN /\ th[t].pc # "except") =>
      /\ ~th[t].cap.lookup
      /\ ~th[t].cap.solver
      /\ ~th[t].cap.manual
      /\ svc.captcha_resuelto
      /\ th[t].pc = "consultar"

C10_Witness ==
  \E t \in Threads :
    /\ th[t].cap.pre > TOKEN_MIN
    /\ th[t].pc = "consultar"
    /\ th[t].i = 2
    /\ svc.captcha_token = Preview(th[t].cap.pre)


\* ======================================================================
\* Properties of captcha handling inside the loop
\* ======================================================================
EnBucle(t) ==
  th[t].pc \in {"renovar", "reset", "url", "cuit", "captcha", "resolver",
                "consultar", "extraer", "except"}

C12_GestionarNoLanza ==
  \A t \in Threads : ~(th[t].pc = "except" /\ th[t].cap.raised)


\* C30: in _resolver_captcha with the frame present the manual clicks are
\* made if and only if the path through the solver client did not succeed
\* (no client, no site key, no token, no textarea at the injection, an
\* exception); after a success they are never made; without the frame
\* neither path runs and the call raises
C30_ManualSiNoAutomatico ==
  \A t \in Threads :
    th[t].cap.auto # "none" =>
      /\ th[t].cap.marco =>
           /\ th[t].cap.manual <=> th[t].cap.auto # "ok"
           /\ th[t].cap.auto = "sin_cliente" <=> ~svc.twocaptcha_service
           /\ th[t].cap.auto = "ok" => (th[t].cap.solver /\ th[t].cap.res = None)
      /\ ~th[t].cap.marco =>
           /\ ~th[t].cap.manual
           /\ ~th[t].cap.solver
           /\ th[t].cap.auto = "no_run"
           /\ th[t].cap.res = MsgNoIframe

C30_Witness ==
  \E t \in Threads :
    /\ th[t].cap.marco
    /\ th[t].cap.auto = "sin_textarea"
    /\ th[t].cap.manual
    /\ th[t].cap.res = None
    /\ th[t].i = 2

\* ======================================================================
\* Properties of the close
\* ======================================================================
Cerrada == app.phase = "closed"
Liberado(k) ==
  CASE k \in 1..3 -> Recurso(svc, k) \notin world.openPages
    [] k = 4 -> svc.browser \notin world.liveBrowsers
    [] OTHER -> svc.playwright \notin world.liveDrivers

\* C13: when one release of cerrar_sesion raises, every other resource the
\* session owns is released all the same
C13_CierreTolerante ==
  (Cerrada /\ app.falla # 0) =>
    \A k \in 1..5 : k # app.falla => Liberado(k)

\* C14: after cerrar_sesion returns, every session field holds its
\* uninitialized value
C14_CamposReiniciados ==
  Cerrada => svc = ServiceInit(svc.twocaptcha_service)

\* C15: once cerrar_sesion has completed, no later call initializes or
\* authenticates the session again, and no browser is launched
C15_CerradaEsTerminal ==
  Cerrada =>
    /\ world.launched = app.lanzados
    /\ \A t \in Threads : th[t].pc \notin {"init", "login", "login_resolver"}


\* ======================================================================
\* Properties of the session states
\* ======================================================================

\* C16: after a batch was aborted on a lost connection, session_ready is
\* false
C16_AbortadaNoLista ==
  \A t \in Threads :
    (Returned(t) /\ th[t].aborted # 0) => ~svc.session_ready


\* C17: when the expiry is detected for an identifier and the login of
\* _rehacer_login raises, the failure reaches the except branch of the loop
\* for that identifier: none of its later steps runs
C17_ReloginFallidoPropaga ==
  \A t \in Threads :
    (th[t].lg.fin = "raised" /\ th[t].lg.de = "relogin") => th[t].pc = "except"

\* C18: a login whose direct navigation met the bot block on the first
\* attempt and on the retry raises: it never returns a services page
C18_BloqueoDobleFalla ==
  \A t \in Threads : ~(th[t].lg.fin = "returned" /\ th[t].lg.bloqueos = 2)

\* C19: when the login inside inicializar_sesion returned after a captcha
\* attempt that found no frame, raised or left a token too short,
\* session_ready is true, there is a services page and captcha_resuelto is
\* false, and a startup has ended with the app serving
C19_CaptchaNoBloqueaInicio ==
  \A t \in Threads :
    (th[t].lg.fin = "returned" /\ th[t].lg.de = "init"
     /\ th[t].lg.captcha \in {"absent", "raise", "short"}) =>
         /\ svc.session_ready
         /\ svc.servicios_page # NoPage
         /\ ~svc.captcha_resuelto
         /\ (th[t].pc = "idle" => app.phase = "serving")

C19_Witness ==
  \E t \in Threads :
    /\ th[t].pc = "idle"
    /\ th[t].lg.fin = "returned"
    /\ th[t].lg.captcha = "raise"
    /\ svc.twocaptcha_service
    /\ world.textarea > TOKEN_MIN

\* C20: after a failed startup the app serves with session_ready false; a
\* request that finds the session not ready runs inicializar_sesion, once,
\* before any step for an identifier; a request that finds it ready with a
\* services page runs none
C20_InicioPerezoso ==
  \A t \in Threads :
    /\ (th[t].pc = "idle" /\ th[t].lg.fin = "raised") =>
         (app.phase = "serving" /\ ~svc.session_ready)
    /\ th[t].op = "obtener_alicuotas" =>
         /\ (th[t].pc = "init") =>
              (~th[t].lista /\ th[t].inits = 0 /\ th[t].acted = {})
         /\ (th[t].pc # "init") => (th[t].lista <=> th[t].inits = 0)
         /\ (th[t].pc = "failed") => th[t].acted = {}

C20_Witness ==
  \E t \in Threads :
    /\ th[t].op = "obtener_alicuotas"
    /\ ~th[t].lista
    /\ th[t].inits = 1
    /\ th[t].acted # {}
    /\ world.launched = 2


\* ======================================================================
\* Properties of the steps of the loop
\* ======================================================================

\* C26: after the login of _rehacer_login returned during a batch, the steps
\* that follow act on the services page that login returned, which is open,
\* never on the page the re-authentication closed
C26_PaginaTrasRelogin ==
  \A t \in Threads :
    (th[t].lg.fin = "returned" /\ th[t].lg.de = "relogin" /\ EnBucle(t)) =>
      /\ th[t].servicios_page = svc.servicios_page
      /\ th[t].servicios_page \in world.openPages

Ultimo(seq) == seq[Len(seq)]

Orden == <<"renovar", "reset", "url", "cuit", "captcha", "consultar", "extraer">>
Lugar(p) == CHOOSE k \in 1..Len(Orden) : Orden[k] = p

\* C28: the steps of an identifier are called in the order expiry check,
\* form reset, drift check, identifier entry, captcha handling (once or
\* twice), query, extraction, none skipped; the form reset is called for
\* every identifier but the first, and never for the first
C28_OrdenDePasos ==
  \A t \in Threads :
    LET ps == th[t].pasos.s IN
    /\ ps # <<>> => ps[1] = "renovar"
    /\ \A k \in 1..(Len(ps) - 1) :
         \/ Lugar(ps[k + 1]) = Lugar(ps[k]) + 1 /\ ps[k] # "renovar"
         \/ ps[k] = "renovar" /\
              ps[k + 1] = (IF th[t].pasos.i = 1 THEN "url" ELSE "reset")
         \/ ps[k] = "captcha" /\ ps[k + 1] = "captcha"
    /\ \A k \in 1..Len(ps) : ps[k] = "reset" => th[t].pasos.i > 1
    /\ (Len(ps) >= 2 /\ th[t].pasos.i > 1) => ps[2] = "reset"

C28_Witness ==
  \E t \in Threads :
    /\ th[t].pasos.i = 2
    /\ th[t].pasos.s = <<"renovar", "reset", "url", "cuit", "captcha", "captcha",
                         "consultar", "extraer">>
    /\ th[t].resultados[1].error = None

\* C29: before an identifier is entered, page.goto to the query page is called
\* if and only if the current URL does not contain the path of the query
\* page; whatever the check or the navigation does, the loop goes on to the
\* entry of the identifier with no error recorded
C29_CorreccionDeDeriva ==
  \A t \in Threads :
    th[t].nav.visto =>
      /\ th[t].nav.goto <=> ~th[t].nav.def
      /\ th[t].pc = "cuit"
      /\ Len(th[t].resultados) = th[t].i - 1
      /\ th[t].i \notin th[t].raised

\* C29 amended: page.goto is also called when the URL holds the path of the
\* home page, whatever else it holds
C29_CorreccionDeDerivaHome ==
  \A t \in Threads :
    th[t].nav.visto =>
      /\ th[t].nav.goto <=> (th[t].nav.home \/ ~th[t].nav.def)
      /\ th[t].pc = "cuit"
      /\ Len(th[t].resultados) = th[t].i - 1
      /\ th[t].i \notin th[t].raised

C29_Witness ==
  \E t \in Threads :
    /\ th[t].nav.visto
    /\ th[t].nav.home
    /\ th[t].nav.def
    /\ th[t].nav.res = MsgTimeout
    /\ th[t].i = 2

\* ======================================================================
\* Properties of the result extraction
\* ======================================================================
Extraido(t) == th[t].ext.donde # "none"
\* the entry appended for the identifier that was just extracted
EntradaExtraida(t) == th[t].resultados[Len(th[t].resultados)]
Centinelas == {SinAlicuota, SinAlicuotaTimeout}

\* C23: with the label "Variable: 2.50% / Fija: $0.60" and the name line
\* "EMPRESA EJEMPLO SA" in the frame, the entry of the identifier has
\* alicuota "2.50", that name and error null
C23_EscenarioAlicuota ==
  \A t \in Threads :
    ( /\ th[t].ext.donde = "datos"
      /\ th[t].ext.texto = LabelRate
      /\ th[t].ext.nombre = "EMPRESA EJEMPLO SA" ) =>
        EntradaExtraida(t) =
          Resultado(th[t].cuits[Len(th[t].resultados)], "2.50",
                    "EMPRESA EJEMPLO SA", None)

\* C24: _extraer_alicuota never raises; whenever it returns without the
\* data, on a failure or on an exceeded deadline, alicuota is a "not
\* extracted" sentinel and nombre the name recovered or "No disponible";
\* both fields are never null
C24_ExtraerNoLanza ==
  \A t \in Threads :
    Extraido(t) =>
      /\ th[t].pc # "except"
      /\ EntradaExtraida(t).alicuota # None
      /\ EntradaExtraida(t).nombre # None
      /\ th[t].ext.donde # "datos" =>
           /\ EntradaExtraida(t).alicuota \in Centinelas
           /\ EntradaExtraida(t).nombre \in {NoDisponible, th[t].ext.nombre}

\* C25: when the result container is missing or empty, or the extraction
\* deadline is exceeded, the entry of the identifier has error null and the
\* sentinel as alicuota, and the loop goes on to the next identifier without
\* the except branch and its page reset
C25_DegradadaNoEsFallo ==
  \A t \in Threads :
    ( \/ th[t].ext.donde \in {"sin_frame", "timeout", "timeout_nombre"}
      \/ (th[t].ext.donde = "datos" /\ th[t].ext.texto = <<>>) ) =>
        /\ EntradaExtraida(t).error = None
        /\ EntradaExtraida(t).alicuota \in Centinelas
        /\ Len(th[t].resultados) = th[t].i - 1
        /\ (th[t].i - 1) \notin th[t].raised
        /\ th[t].aborted = 0
        /\ th[t].pc = (IF th[t].i > Len(th[t].cuits) THEN "done" ELSE "renovar")

C25_Witness ==
  \E t \in Threads :
    /\ th[t].ext.donde = "timeout_nombre"
    /\ th[t].ext.nombre = "EMPRESA EJEMPLO SA"
    /\ th[t].pc = "renovar"
    /\ th[t].i = 2
    /\ EntradaExtraida(t) =
         Resultado(th[t].cuits[1], SinAlicuotaTimeout, "EMPRESA EJEMPLO SA", None)

\* ======================================================================
\* Properties of the solver client
\* ======================================================================
Retorno(fn) == sol.pc = "retorno" /\ sol.fn = fn

\* C21: every non-null value returned by solve_recaptcha_v2 or solve_hcaptcha
\* is a string longer than 50 characters, and an exception of the solver
\* gives None
C21_TokenCortoEsFallo ==
  sol.pc = "retorno" =>
    /\ sol.ret # PyNone => (sol.ret.t = "str" /\ sol.ret.n > SOLVER_MIN)
    /\ sol.result = Raises => sol.ret = PyNone

\* C22: whenever the response is a string longer than 50 characters, or a
\* dictionary holding such a string under key code, under key token or under
\* any other key, solve_recaptcha_v2 returns a token
C22_FormasDeRespuesta ==
  ( /\ Retorno("solve_recaptcha_v2")
    /\ \/ (sol.result.k = "val" /\ LongStr(sol.result.v))
       \/ (sol.result.k = "dict"
           /\ \E i \in 1..Len(sol.result.d) : LongStr(sol.result.d[i][2])) )
  => sol.ret # PyNone

\* C22 amended: the key code is looked at first and the key token second;
\* the other keys are searched only when the dictionary has neither
C22_FormasConPrecedencia ==
  LET d == sol.result.d IN
  ( /\ Retorno("solve_recaptcha_v2")
    /\ \/ (sol.result.k = "val" /\ LongStr(sol.result.v))
       \/ /\ sol.result.k = "dict"
          /\ \/ \E i \in 1..Len(d) : d[i][1] = "code" /\ LongStr(d[i][2])
             \/ /\ \A i \in 1..Len(d) : d[i][1] # "code"
                /\ \E i \in 1..Len(d) : d[i][1] = "token" /\ LongStr(d[i][2])
             \/ /\ \A i \in 1..Len(d) : d[i][1] \notin {"code", "token"}
                /\ \E i \in 1..Len(d) : LongStr(d[i][2]) )
  => LongStr(sol.ret)

C22_Witness ==
  /\ Retorno("solve_recaptcha_v2")
  /\ sol.result.k = "dict"
  /\ Len(sol.result.d) = 2
  /\ sol.result.d[1] = <<"captchaId", PyStr(50)>>
  /\ sol.result.d[2][1] = "token"
  /\ LongStr(sol.ret)

\* ======================================================================
\* Properties of the helpers of the captcha resolver
\* ======================================================================

Manual == hlp.fn = "_resolver_captcha_manual"

\* C31: the manual solver generates 5 to 7 entries, each one digit 0-9,
\* attempts one click per entry in the order of the sequence and goes on when
\* a click fails, always attempts the click on Verificar after the last
\* entry, and raises exactly when that click fails.
C31_ManualRecorreTodo ==
  Manual =>
    /\ hlp.pc # "llamada" =>
         /\ Len(hlp.numeros) \in 5..7
         /\ \A k \in 1..Len(hlp.numeros) :
              hlp.numeros[k] \in {"0", "1", "2", "3", "4", "5", "6", "7", "8", "9"}
    /\ Len(hlp.clics) <= Len(hlp.numeros)
    /\ hlp.clics = SubSeq(hlp.numeros, 1, Len(hlp.clics))
    /\ hlp.verificar # "none" => hlp.clics = hlp.numeros
    /\ hlp.pc = "retorno" =>
         /\ hlp.clics = hlp.numeros
         /\ hlp.verificar # "none"
         /\ hlp.raised <=> hlp.verificar # "ok"

\* a call that returned although a click on an entry had failed
C31_Witness ==
  /\ Manual
  /\ hlp.pc = "retorno"
  /\ hlp.fallos > 0
  /\ Len(hlp.numeros) = 7
  /\ ~hlp.raised

\* the frames of the page that the claim counts: the named iframe of the
\* container and the named iframes that pass the test of the scan
ConNombreEnContenedor(p) ==
  p.contenedor \notin {NoContenedor, 0} /\ p.frames[p.contenedor].name # <<>>
ConNombreYCoincide(p) ==
  \E k \in 1..Len(p.frames) : Coincide(p.frames[k]) /\ p.frames[k].name # <<>>

\* C33: on a page that answers both queries, the frame location returns a
\* frame reference whenever the container holds a named frame or some frame
\* of the page matches the known source or name patterns and has a name (the
\* container's frame first), and returns none only when no such frame exists.
C33_MarcoSiExiste ==
  ( /\ hlp.fn = "_encontrar_captcha_iframe"
    /\ hlp.pc = "retorno"
    /\ hlp.r1 = "ok" /\ hlp.r2 = "ok" ) =>
    /\ ConNombreEnContenedor(hlp.page) =>
         hlp.ret = Selector(hlp.page.frames[hlp.page.contenedor].name)
    /\ hlp.ret = NoSelector <=>
         ~(ConNombreEnContenedor(hlp.page) \/ ConNombreYCoincide(hlp.page))

\* the iframes that the selector of the located frame designates
Designados == {k \in 1..Len(hlp.page.frames) : hlp.page.frames[k].name = hlp.sel.name}
\* the src of the located frame was read
SrcLeido == hlp.sel # NoSelector /\ Cardinality(Designados) = 1 /\ hlp.rs = "ok"
\* the located frame cannot be read: the read fails or is ambiguous
SrcFalla == hlp.sel # NoSelector /\ (Cardinality(Designados) > 1 \/ hlp.rs # "ok")
\* the key that the src of the located frame holds, "" if none
ClaveSrc == IF SrcLeido THEN hlp.page.frames[CHOOSE k \in Designados : TRUE].src.k ELSE ""
\* the markup holds a key: a data-sitekey attribute or a k parameter
ClaveHtml ==
  hlp.page.sitekey # "" \/ \E k \in 1..Len(hlp.page.frames) : hlp.page.frames[k].src.k # ""

Califica(l) == l.len > 0 /\ ~l.variable /\ ~l.isdigit

\* C34: the display name is the first non-empty line of the frame text that
\* is not the rate line and is not purely numeric: never a purely numeric
\* line, never a later line when an earlier one qualifies.
C34_PrimeraLineaQueCalifica ==
  (hlp.fn = "_extraer_nombre_desde_contenido" /\ hlp.pc = "retorno") =>
    /\ hlp.ret = Primera(hlp.contenido,
                          {k \in 1..Len(hlp.contenido) : Califica(hlp.contenido[k])})
    /\ \A k \in 1..Len(hlp.contenido) :
         hlp.contenido[k].isdigit => hlp.ret # hlp.contenido[k].texto

\* ======================================================================
\* Properties of the session fields
\* ======================================================================

\* C35: when the availability probe of _resetear_formulario fails because the
\* page was closed, the failure propagates out of the reset to the handler of
\* the identifier, and the pipeline does not go on with the closed page.
C35_SondaFallidaPropaga ==
  \A t \in Threads :
    th[t].nav.probe = MsgClosed => th[t].pc = "except"

\* C36: whenever session_ready is true, servicios_page is not null and the
\* most recent login or re-login attempt completed without raising; a failed
\* initialization or re-authentication leaves session_ready false.
C36_ListaSoloTrasLogin ==
  /\ svc.session_ready =>
       (svc.servicios_page # NoPage /\ app.login = "returned")
  /\ \A t \in Threads : th[t].lg.fin = "raised" => ~svc.session_ready

\* a re-login that raised on a session that was ready until then
C36_Witness ==
  /\ app.login = "raised"
  /\ ~svc.session_ready
  /\ svc.servicios_page # NoPage
  /\ \E t \in Threads : th[t].lg.fin = "raised" /\ th[t].lg.de = "relogin"

\* a thread is inside a resolve of the CAPTCHA: the one of _gestionar_captcha
\* or the one of the login
Resolviendo(t) == th[t].pc \in {"resolver", "login_resolver"}

\* C37: captcha_resolviendo is true exactly while a resolve of the CAPTCHA is
\* being executed: true during every resolve, the one of the login included,
\* and false whenever none is in progress, also after one that raised.
C37_ResolviendoExacto ==
  svc.captcha_resolviendo <=> \E t \in Threads : Resolviendo(t)

\* C38: whenever captcha_resuelto is true, captcha_token is not null and is
\* a preview: at most 50 characters of the token followed by "..."; the
\* session fields never hold the whole token.
C38_SoloVistaPrevia ==
  /\ svc.captcha_resuelto => svc.captcha_token # NoneToken
  /\ svc.captcha_token # NoneToken =>
       /\ svc.captcha_token.prefix \in 0..50
       /\ svc.captcha_token.suffix = "..."

\* a token of 51 characters was accepted: its first 50 are kept
C38_Witness ==
  /\ svc.captcha_resuelto
  /\ svc.captcha_token = [prefix |-> 50, suffix |-> "..."]
  /\ world.textarea = 51

\* ======================================================================
\* Termination
\* ======================================================================

\* the thread is inside _obtener_alicuotas_secuencial: in its loop, or in the
\* re-login that the expiry check of an identifier started
EnSecuencial(t) ==
  \/ EnBucle(t)
  \/ th[t].pc \in {"login", "login_resolver"} /\ th[t].ret = "relogin"

\* no position occurs twice in the sequence
SinRepetir(seq) == \A j \in 1..Len(seq) : \A k \in 1..Len(seq) : seq[j] = seq[k] => j = k

\* the bounds of one batch: each identifier visited at most once and in
\* order, at most two captcha handlings and one page reset per identifier
Acotado(t) ==
  /\ SinRepetir(th[t].visitas)
  /\ \A k \in 1..Len(th[t].visitas) : th[t].visitas[k] = k
  /\ Len(th[t].visitas) <= Len(th[t].cuits)
  /\ SinRepetir(th[t].resets)
  /\ Cardinality({k \in 1..Len(th[t].pasos.s) : th[t].pasos.s[k] = "captcha"}) <= 2

\* C39: with every browser wait returning or timing out, the processing of a
\* batch visits each identifier at most once, handles the captcha at most
\* twice and resets the page at most once per identifier, and eventually
\* returns.
C39_Termina ==
  /\ [](\A t \in Threads : Acotado(t))
  /\ \A t \in Threads : EnSecuencial(t) ~> Returned(t)

\* a batch of MaxBatch identifiers returned after two captcha handlings of its
\* last identifier and a page reset of an earlier one
C39_Witness ==
  \E t \in Threads :
    /\ Returned(t)
    /\ Len(th[t].cuits) = MaxBatch
    /\ Len(th[t].visitas) = MaxBatch
    /\ th[t].resets # <<>>
    /\ Cardinality({k \in 1..Len(th[t].pasos.s) : th[t].pasos.s[k] = "captcha"}) = 2
====
